---- MODULE Spec2Model ----
(***************************************************************************)
(* Courtbot: the dialogue held over SMS by the route handler of            *)
(* app.post('/sms') in src/unnamed/part_001.                               *)
(*                                                                         *)
(* One request is the route handler's synchronous part (RouteHandler)      *)
(* followed by the callbacks of the store calls it started, which the      *)
(* store may answer in any order.  The conversation state of a sender is   *)
(* the cookie session: the request works on its own copy (req.session),    *)
(* and the copy is written back to the sender's cookie when the response   *)
(* headers are written, that is at the first res.send of the request.      *)
(* The stores (module ./db) are outside the source: the model records the  *)
(* rows the handler hands to db.addReminder and db.addQueued, and takes    *)
(* the answers of db.findAskedQueued and db.findCitation as inputs of the  *)
(* request.  Spec starts where Express enters the route handler, and       *)
(* delivers a sender's message when that sender's previous request has no  *)
(* callback outstanding; questionAskedMiddleware (lines 56-65), which is   *)
(* registered in front of the handler, is not part of Spec.                *)
(***************************************************************************)
EXTENDS Integers, Sequences, FiniteSets, TLC

VARIABLES
    cookie,     \* cookie[s]: the session the sender's cookie holds
    req,        \* req[s]: the sender's request, in flight or last completed
    reminders,  \* rows handed to db.addReminder, in order
    queued,     \* rows handed to db.addQueued, in order
    lastTurn,   \* lastTurn[s]: what the sender's previous message was
    nmsgs,      \* number of inbound messages so far
    now,        \* the queue expiry sweep's clock, in days
    lastSweep,  \* the day of the latest sweep
    lookups,    \* the QueuedLookups, in order of creation
    dbTables0,  \* the tables of the database when ensureTablesExist starts
    dbTables,   \* the tables of the database
    chain,      \* where the promise chain of ensureTablesExist stands
    solo,       \* where a createTable called by itself stands
    drops,      \* the tables of the dropTable calls not yet answered
    calls,      \* calls[f]: the calls to knex.schema made for f, in order
    log         \* log[f]: the entries logged for f, in order

smsVars == <<cookie, req, reminders, queued, lastTurn, nmsgs>>

sweepVars == <<now, lastSweep, lookups>>

tableVars == <<dbTables0, dbTables, chain, solo, drops, calls, log>>

vars == <<smsVars, sweepVars, tableVars>>

(***************************************************************************)
(* Bounds of the model.                                                    *)
(***************************************************************************)
MaxMsgs == 3

Senders == {"+15550001"}

(***************************************************************************)
(* Texts are sequences of characters.                                      *)
(***************************************************************************)
Rep(c, n) == [i \in 1..n |-> c]

Bodies ==
    { <<"y","e","s">>, <<"Y">>, <<"y","e","a">>, <<"Y","U","P">>,
      <<"n","o">>, <<"N">>,
      <<"y","e","s"," ">>,
      <<"m","a","y","b","e">>,
      <<"a","b","c","1","2","3">>,
      <<"U+00E9","t","U+00E9">>,
      Rep("U+00DF", 3),
      Rep("7", 25),
      Rep("7", 26) }

\* The texts of the specifications with more inputs of another kind.
FewBodies == { <<"y","e","s">>, <<"n","o">>, <<"a","b","c","1","2","3">> }

\* String.prototype.toUpperCase on one character, for the characters up to
\* U+00FF; a character beyond ASCII is written by its code point.  The
\* result is a text: the sharp s (U+00DF) becomes "SS".
UpperChar(c) ==
    CASE c = "a" -> <<"A">>
      [] c = "b" -> <<"B">>
      [] c = "c" -> <<"C">>
      [] c = "d" -> <<"D">>
      [] c = "e" -> <<"E">>
      [] c = "f" -> <<"F">>
      [] c = "g" -> <<"G">>
      [] c = "h" -> <<"H">>
      [] c = "i" -> <<"I">>
      [] c = "j" -> <<"J">>
      [] c = "k" -> <<"K">>
      [] c = "l" -> <<"L">>
      [] c = "m" -> <<"M">>
      [] c = "n" -> <<"N">>
      [] c = "o" -> <<"O">>
      [] c = "p" -> <<"P">>
      [] c = "q" -> <<"Q">>
      [] c = "r" -> <<"R">>
      [] c = "s" -> <<"S">>
      [] c = "t" -> <<"T">>
      [] c = "u" -> <<"U">>
      [] c = "v" -> <<"V">>
      [] c = "w" -> <<"W">>
      [] c = "x" -> <<"X">>
      [] c = "y" -> <<"Y">>
      [] c = "z" -> <<"Z">>
      [] c = "U+00B5" -> <<"U+039C">>
      [] c = "U+00DF" -> <<"S", "S">>
      [] c = "U+00E0" -> <<"U+00C0">>
      [] c = "U+00E1" -> <<"U+00C1">>
      [] c = "U+00E2" -> <<"U+00C2">>
      [] c = "U+00E3" -> <<"U+00C3">>
      [] c = "U+00E4" -> <<"U+00C4">>
      [] c = "U+00E5" -> <<"U+00C5">>
      [] c = "U+00E6" -> <<"U+00C6">>
      [] c = "U+00E7" -> <<"U+00C7">>
      [] c = "U+00E8" -> <<"U+00C8">>
      [] c = "U+00E9" -> <<"U+00C9">>
      [] c = "U+00EA" -> <<"U+00CA">>
      [] c = "U+00EB" -> <<"U+00CB">>
      [] c = "U+00EC" -> <<"U+00CC">>
      [] c = "U+00ED" -> <<"U+00CD">>
      [] c = "U+00EE" -> <<"U+00CE">>
      [] c = "U+00EF" -> <<"U+00CF">>
      [] c = "U+00F0" -> <<"U+00D0">>
      [] c = "U+00F1" -> <<"U+00D1">>
      [] c = "U+00F2" -> <<"U+00D2">>
      [] c = "U+00F3" -> <<"U+00D3">>
      [] c = "U+00F4" -> <<"U+00D4">>
      [] c = "U+00F5" -> <<"U+00D5">>
      [] c = "U+00F6" -> <<"U+00D6">>
      [] c = "U+00F8" -> <<"U+00D8">>
      [] c = "U+00F9" -> <<"U+00D9">>
      [] c = "U+00FA" -> <<"U+00DA">>
      [] c = "U+00FB" -> <<"U+00DB">>
      [] c = "U+00FC" -> <<"U+00DC">>
      [] c = "U+00FD" -> <<"U+00DD">>
      [] c = "U+00FE" -> <<"U+00DE">>
      [] c = "U+00FF" -> <<"U+0178">>
      [] OTHER -> <<c>>

\* var text = req.body.Body.toUpperCase();
RECURSIVE toUpperCase(_)
toUpperCase(body) ==
    IF body = <<>> THEN <<>>
    ELSE UpperChar(Head(body)) \o toUpperCase(Tail(body))

\* text === 'YES' || text === 'YEA' || text === 'YUP' || text === 'Y'
IsAffirmative(text) ==
    \/ text = <<"Y","E","S">>
    \/ text = <<"Y","E","A">>
    \/ text = <<"Y","U","P">>
    \/ text = <<"Y">>

\* text === 'NO' || text === 'N'
IsNegative(text) ==
    \/ text = <<"N","O">>
    \/ text = <<"N">>

MinCitationLength == 6
MaxCitationLength == 25

\* Mutants of correctLengthCitation: the lower bound exclusive; no lower
\* bound.
correctLengthCitationAbove6(text) ==
    MinCitationLength < Len(text) /\ Len(text) <= MaxCitationLength

correctLengthCitationNoMin(text) == Len(text) <= MaxCitationLength

\* var correctLengthCitation = 6 <= text.length && text.length <= 25;
correctLengthCitation(text) ==
    MinCitationLength <= Len(text) /\ Len(text) <= MaxCitationLength

(***************************************************************************)
(* Records of the stores, as the handler sees them.                        *)
(***************************************************************************)
NoMatch == [id |-> 0, citation |-> <<>>, defendant |-> ""]

Case1 == [id |-> 1, citation |-> <<"Z","-","9">>, defendant |-> "john q public"]
Case2 == [id |-> 2, citation |-> <<"Z","-","9">>, defendant |-> "JANE ROE"]

\* A row of the queue table that db.findAskedQueued returns.
QueueRow1 == [id |-> 71, citation |-> <<"Q","-","7","1","0","0">>, defendant |-> "RICHARD MILES"]
QueueRow2 == [id |-> 72, citation |-> <<"Q","-","7","2","0","0">>, defendant |-> "RICHARD MILES"]

\* The answers db.findCitation can give: no record, one record, two records.
CitationResults == { <<>>, <<Case1>>, <<Case1, Case2>> }

\* The answers db.findAskedQueued can give.
AskedQueuedResults == { <<>>, <<QueueRow1>>, <<QueueRow1, QueueRow2>> }

(***************************************************************************)
(* The session and the request.                                            *)
(***************************************************************************)
\* A session no handler has written: the flags are undefined, hence falsy.
EmptySession ==
    [askedReminder |-> FALSE, askedQueued |-> FALSE,
     match |-> NoMatch, citationId |-> <<>>]

NoResponse == [status |-> 0, body |-> <<>>]

Sms(kind) == [kind |-> kind, match |-> NoMatch]

NoArgs == [citationId |-> <<>>, phone |-> ""]

NoRequest ==
    [live |-> FALSE, from |-> "", body |-> <<>>, text |-> <<>>,
     sess0 |-> EmptySession, session |-> EmptySession,
     twiml |-> <<>>, sent |-> FALSE, sends |-> 0, response |-> NoResponse,
     saved |-> EmptySession, pend |-> {}, uncaught |-> FALSE,
     asked |-> <<>>, results |-> <<>>, errs |-> {},
     addQueuedArgs |-> NoArgs, reminders0 |-> 0, queued0 |-> 0]

\* The request as Express hands it to the route handler.
NewRequest(s, body, asked, results, errs) ==
    [NoRequest EXCEPT !.live = TRUE, !.from = s, !.body = body,
                      !.text = toUpperCase(body),
                      !.sess0 = cookie[s], !.session = cookie[s],
                      !.saved = cookie[s],
                      !.asked = asked, !.results = results, !.errs = errs,
                      !.reminders0 = Len(reminders), !.queued0 = Len(queued)]

(***************************************************************************)
(* Sending the response.                                                   *)
(***************************************************************************)
\* res.send(twiml.toString()): the first call writes the headers, and with
\* them the session into the cookie, and sends the messages built so far;
\* a later call on the same response throws ("headers already sent").
Send(r) ==
    IF r.sent
    THEN [r EXCEPT !.sends = @ + 1]
    ELSE [r EXCEPT !.sent = TRUE, !.sends = @ + 1,
                   !.response = [status |-> 200, body |-> r.twiml],
                   !.saved = r.session]

\* The error handling middleware, reached by next(err).
ErrorMiddleware(r) ==
    IF ~r.sent
    THEN [r EXCEPT !.sent = TRUE, !.sends = @ + 1,
                   !.response = [status |-> 500, body |-> <<>>],
                   !.saved = r.session]
    ELSE r

\* Mutant of handleReminderResponse: YES leaves askedReminder set.
handleReminderResponseKeepsFlag(w, match) ==
    IF IsAffirmative(w.r.text)
    THEN [r |-> Send([w.r EXCEPT
                  !.twiml = @ \o <<Sms("reminderConfirmed1of2"),
                                   Sms("reminderConfirmed2of2")>>]),
          reminders |->
              Append(w.reminders,
                     [caseId |-> match.id, phone |-> w.r.from,
                      originalCase |-> match])]
    ELSE IF IsNegative(w.r.text)
    THEN [r |-> Send([w.r EXCEPT
                  !.twiml = @ \o <<Sms("optOut")>>,
                  !.session.askedReminder = FALSE]),
          reminders |-> w.reminders]
    ELSE w

(***************************************************************************)
(* handleReminderResponse(match), on the pair w of the request and the     *)
(* rows handed to db.addReminder.  The row is handed over whatever the     *)
(* store will answer: the callback function(err, data) {} reads neither.   *)
(***************************************************************************)
handleReminderResponse(w, match) ==
    IF IsAffirmative(w.r.text)
    THEN [r |-> Send([w.r EXCEPT
                  !.twiml = @ \o <<Sms("reminderConfirmed1of2"),
                                   Sms("reminderConfirmed2of2")>>,
                  !.session.askedReminder = FALSE]),
          reminders |->
              Append(w.reminders,
                     [caseId |-> match.id, phone |-> w.r.from,
                      originalCase |-> match])]
    ELSE IF IsNegative(w.r.text)
    THEN [r |-> Send([w.r EXCEPT
                  !.twiml = @ \o <<Sms("optOut")>>,
                  !.session.askedReminder = FALSE]),
          reminders |-> w.reminders]
    ELSE w

(***************************************************************************)
(* The route handler up to its return: lines 66-131.                       *)
(***************************************************************************)
\* Mutant of ReminderBranch: the answer is handled without looking at
\* askedReminder.
ReminderBranchAlways(w) == handleReminderResponse(w, w.r.session.match)

\* if (req.session.askedReminder) ... else db.findAskedQueued(...)
ReminderBranch(w) ==
    IF w.r.session.askedReminder
    THEN handleReminderResponse(w, w.r.session.match)
    ELSE [w EXCEPT !.r.pend = @ \cup {"findAskedQueued"}]

\* Mutant of QueuedBranchReturns: the handler returns on every answer to
\* the queue question but YES.
QueuedBranchReturnsUnlessYes(r) ==
    r.session.askedQueued /\ ~IsAffirmative(r.text)

\* The route handler returns inside the askedQueued branch on NO.
QueuedBranchReturns(r) ==
    r.session.askedQueued /\ ~IsAffirmative(r.text) /\ IsNegative(r.text)

\* Mutant of QueuedBranch: every answer to the queue question but NO is
\* taken as YES.
QueuedBranchQueuesUnlessNo(r) ==
    IF r.session.askedQueued
    THEN IF IsNegative(r.text)
         THEN Send([r EXCEPT !.twiml = @ \o <<Sms("optOut")>>,
                             !.session.askedQueued = FALSE])
         ELSE [r EXCEPT !.pend = @ \cup {"addQueued"},
                        !.addQueuedArgs =
                            [citationId |-> r.session.citationId,
                             phone |-> r.from]]
    ELSE r

\* if (req.session.askedQueued) ...  On NO after handleReminderResponse has
\* answered, res.send throws inside the handler: Express hands the error to
\* the error handling middleware, which does nothing once the headers are
\* sent.
QueuedBranch(r) ==
    IF r.session.askedQueued
    THEN IF IsAffirmative(r.text)
         THEN [r EXCEPT !.pend = @ \cup {"addQueued"},
                        !.addQueuedArgs =
                            [citationId |-> r.session.citationId,
                             phone |-> r.from]]
         ELSE IF IsNegative(r.text)
         THEN Send([r EXCEPT !.twiml = @ \o <<Sms("optOut")>>,
                             !.session.askedQueued = FALSE])
         ELSE r
    ELSE r

\* db.findCitation(text, ...) is started unless the handler has returned.
CitationBranch(r0, r) ==
    IF QueuedBranchReturns(r0)
    THEN r
    ELSE [r EXCEPT !.pend = @ \cup {"findCitation"}]

\* The rows handed to db.addQueued once the handler that left the request
\* as r has returned: db.addQueued is called inside the handler (line 110),
\* its callback runs in a later turn.
QueuedAfter(r) ==
    IF "addQueued" \in r.pend
    THEN Append(queued, r.addQueuedArgs)
    ELSE queued

RouteHandler(w) ==
    LET w1 == ReminderBranch(w)
    IN  [w1 EXCEPT !.r = CitationBranch(w1.r, QueuedBranch(w1.r))]

(***************************************************************************)
(* The callbacks.                                                          *)
(***************************************************************************)
\* Mutant of findAskedQueuedCallback: any number of rows but none counts as
\* a question asked.
findAskedQueuedCallbackAnyRows(w) ==
    IF "findAskedQueued" \in w.r.errs
    THEN [w EXCEPT !.r = ErrorMiddleware(w.r)]
    ELSE IF Len(w.r.asked) >= 1
    THEN handleReminderResponse(w, w.r.asked[1])
    ELSE w

\* The callback of db.findAskedQueued (lines 95-104).
findAskedQueuedCallback(w) ==
    IF "findAskedQueued" \in w.r.errs
    THEN [w EXCEPT !.r = ErrorMiddleware(w.r)]
    ELSE IF Len(w.r.asked) = 1
    THEN handleReminderResponse(w, w.r.asked[1])
    ELSE w

\* The callback of db.addQueued (lines 113-122).
addQueuedCallback(r) ==
    LET r1 == IF "addQueued" \in r.errs THEN ErrorMiddleware(r) ELSE r
    IN  Send([r1 EXCEPT !.twiml = @ \o <<Sms("keepChecking")>>,
                        !.session.askedQueued = FALSE])

\* !results || results.length === 0 || results.length > 1
noUniqueMatch(results) == Len(results) = 0 \/ Len(results) > 1

\* The offer to keep checking (lines 138-142).
offerQueue(r) ==
    [r EXCEPT !.twiml = @ \o <<Sms("notFound1of2"),
                               Sms("keepCheckingOffer2of2")>>,
              !.session.askedQueued = TRUE,
              !.session.citationId = r.text]

\* The format error (line 145).
formatError(r) == [r EXCEPT !.twiml = @ \o <<Sms("formatError")>>]

\* Mutant of askReminder: the match is not stored in the session.
askReminderForgetsMatch(r, match) ==
    [r EXCEPT !.twiml = @ \o <<[kind |-> "foundCase", match |-> match]>>,
              !.session.askedReminder = TRUE]

\* The case summary with the reminder prompt (lines 148-156).
askReminder(r, match) ==
    [r EXCEPT !.twiml = @ \o <<[kind |-> "foundCase", match |-> match]>>,
              !.session.match = match,
              !.session.askedReminder = TRUE]

\* The callback of db.findCitation (lines 132-161); a failed lookup hands
\* the callback no results.
findCitationCallback(r) ==
    LET results == IF "findCitation" \in r.errs THEN <<>> ELSE r.results
    IN  IF noUniqueMatch(results)
        THEN IF correctLengthCitation(r.text)
             THEN Send(offerQueue(r))
             ELSE Send(formatError(r))
        ELSE Send(askReminder(r, results[1]))

(***************************************************************************)
(* The state machine.                                                      *)
(***************************************************************************)
InFlight(r) == r.live /\ r.pend # {}

Done(r) == r.live /\ r.pend = {}

\* What the completed turn of r was, for the sender's next message.
TurnKind(r) ==
    IF ~r.live THEN "none"
    ELSE IF IsAffirmative(r.text) /\ r.sess0.askedReminder THEN "reminderYes"
    ELSE "other"

\* Mutant of CookieAfter: one session shared by every sender.
CookieAfterSharedSession(s, r, r2) ==
    IF r2.sent /\ ~r.sent
    THEN [t \in DOMAIN cookie |-> r2.saved]
    ELSE cookie

\* The cookie after a step that took the request from r to r2: the session
\* is written with the response headers.
CookieAfter(s, r, r2) ==
    IF r2.sent /\ ~r.sent
    THEN [cookie EXCEPT ![s] = r2.saved]
    ELSE cookie

\* What res.send does on a response already sent depends on the versions of
\* Express and Node installed, which the sources do not fix: either the
\* headers are set only when absent and the second send is dropped, or
\* setting them again throws ("headers already sent").
ResendThrows == BOOLEAN

\* An exception thrown inside a store callback is caught by no one.  The
\* callback that took the request from r to r2 throws when it called
\* res.send on a response already sent, by an earlier step or by the error
\* handling middleware the callback had just called, and such a call throws.
Thrown(r, r2, throws) ==
    throws /\ r2.sends - r.sends > (IF r.sent THEN 0 ELSE 1)

\* The sweep has not run and no QueuedLookup exists.
SweepIdle ==
    /\ now = 0
    /\ lastSweep = 0
    /\ lookups = <<>>

\* ensureTablesExist has not been called.
NotStarted == [pos |-> 0, phase |-> "notStarted"]

\* No createTable called by itself is running.
NoSolo == [table |-> "", phase |-> "none"]

\* The exported functions that call the database's schema.
Callers == {"ensureTablesExist", "createTable", "dropTable"}

NothingYet == [f \in Callers |-> <<>>]

TablesIdle ==
    /\ dbTables0 = {}
    /\ dbTables = {}
    /\ chain = NotStarted
    /\ solo = NoSolo
    /\ drops = <<>>
    /\ calls = NothingYet
    /\ log = NothingYet

\* No sender has a session and no message has arrived.
SmsInit(senders) ==
    /\ cookie = [s \in senders |-> EmptySession]
    /\ req = [s \in senders |-> NoRequest]
    /\ reminders = <<>>
    /\ queued = <<>>
    /\ lastTurn = [s \in senders |-> "none"]
    /\ nmsgs = 0

Init ==
    /\ SmsInit(Senders)
    /\ SweepIdle
    /\ TablesIdle

\* An inbound message reaches the route handler.
Receive(s, body, asked, results, errs) ==
    /\ nmsgs < MaxMsgs
    /\ ~InFlight(req[s])
    /\ LET w0 == [r |-> NewRequest(s, body, asked, results, errs),
                  reminders |-> reminders]
           w == RouteHandler(w0)
       IN  /\ req' = [req EXCEPT ![s] = w.r]
           /\ reminders' = w.reminders
           /\ queued' = QueuedAfter(w.r)
           /\ cookie' = CookieAfter(s, w0.r, w.r)
    /\ lastTurn' = [lastTurn EXCEPT ![s] = TurnKind(req[s])]
    /\ nmsgs' = nmsgs + 1
    /\ UNCHANGED <<sweepVars, tableVars>>

FindAskedQueuedReturns(s) ==
    /\ req[s].live
    /\ "findAskedQueued" \in req[s].pend
    /\ \E throws \in ResendThrows :
        LET w == findAskedQueuedCallback([r |-> req[s], reminders |-> reminders])
            r2 == [w.r EXCEPT !.pend = @ \ {"findAskedQueued"},
                              !.uncaught = @ \/ Thrown(req[s], w.r, throws)]
        IN  /\ req' = [req EXCEPT ![s] = r2]
            /\ reminders' = w.reminders
            /\ cookie' = CookieAfter(s, req[s], r2)
    /\ UNCHANGED <<queued, lastTurn, nmsgs>>
    /\ UNCHANGED <<sweepVars, tableVars>>

AddQueuedReturns(s) ==
    /\ req[s].live
    /\ "addQueued" \in req[s].pend
    /\ \E throws \in ResendThrows :
        LET r1 == addQueuedCallback(req[s])
            r2 == [r1 EXCEPT !.pend = @ \ {"addQueued"},
                             !.uncaught = @ \/ Thrown(req[s], r1, throws)]
        IN  /\ req' = [req EXCEPT ![s] = r2]
            /\ cookie' = CookieAfter(s, req[s], r2)
    /\ UNCHANGED <<reminders, queued, lastTurn, nmsgs>>
    /\ UNCHANGED <<sweepVars, tableVars>>

FindCitationReturns(s) ==
    /\ req[s].live
    /\ "findCitation" \in req[s].pend
    /\ \E throws \in ResendThrows :
        LET r1 == findCitationCallback(req[s])
            r2 == [r1 EXCEPT !.pend = @ \ {"findCitation"},
                             !.uncaught = @ \/ Thrown(req[s], r1, throws)]
        IN  /\ req' = [req EXCEPT ![s] = r2]
            /\ cookie' = CookieAfter(s, req[s], r2)
    /\ UNCHANGED <<reminders, queued, lastTurn, nmsgs>>
    /\ UNCHANGED <<sweepVars, tableVars>>

\* The stores answer every call: no store call fails.
NoErrors == {}

Next ==
    \/ \E s \in Senders, body \in Bodies,
          asked \in AskedQueuedResults, results \in CitationResults :
            Receive(s, body, asked, results, NoErrors)
    \/ \E s \in Senders : FindAskedQueuedReturns(s)
    \/ \E s \in Senders : AddQueuedReturns(s)
    \/ \E s \in Senders : FindCitationReturns(s)

Spec == Init /\ [][Next]_vars

(***************************************************************************)
(* The same handler with stores that may fail: at most one of the store    *)
(* calls of a request answers with an error.                               *)
(***************************************************************************)
StoreCalls == {"findAskedQueued", "addQueued", "addReminder", "findCitation"}

ErrorSets == {{}} \cup {{c} : c \in StoreCalls}

NextErrors ==
    \/ \E s \in Senders, body \in FewBodies,
          asked \in AskedQueuedResults, results \in CitationResults,
          errs \in ErrorSets :
            Receive(s, body, asked, results, errs)
    \/ \E s \in Senders : FindAskedQueuedReturns(s)
    \/ \E s \in Senders : AddQueuedReturns(s)
    \/ \E s \in Senders : FindCitationReturns(s)

SpecErrors == Init /\ [][NextErrors]_vars

(***************************************************************************)
(* The route as it is registered: app.post('/sms', questionAskedMiddleware,*)
(* handler).  The middleware asks db.findAskedQueued and returns; its      *)
(* callback never calls next() and never writes to the response, so the    *)
(* route handler is not entered.                                           *)
(***************************************************************************)
\* The request as Express hands it to questionAskedMiddleware, which has
\* called db.findAskedQueued and returned.
questionAskedMiddleware(s, body, asked, errs) ==
    [NewRequest(s, body, asked, <<>>, errs)
        EXCEPT !.pend = {"questionAskedMiddleware"}]

\* The callback function(data) receives the store's first argument, the
\* error.  When the call succeeded that argument is null and reading
\* data.length throws; when it failed, the error has no length and nothing
\* is done.  Neither way is next() called or a response sent.
questionAskedMiddlewareCallback(r) ==
    [r EXCEPT !.uncaught = "findAskedQueued" \notin r.errs]

Arrive(s, body, asked, errs) ==
    /\ nmsgs < MaxMsgs
    /\ ~InFlight(req[s])
    /\ req' = [req EXCEPT ![s] = questionAskedMiddleware(s, body, asked, errs)]
    /\ lastTurn' = [lastTurn EXCEPT ![s] = TurnKind(req[s])]
    /\ nmsgs' = nmsgs + 1
    /\ UNCHANGED <<cookie, reminders, queued>>
    /\ UNCHANGED <<sweepVars, tableVars>>

MiddlewareReturns(s) ==
    /\ req[s].live
    /\ "questionAskedMiddleware" \in req[s].pend
    /\ LET r1 == questionAskedMiddlewareCallback(req[s])
           r2 == [r1 EXCEPT !.pend = @ \ {"questionAskedMiddleware"}]
       IN  /\ req' = [req EXCEPT ![s] = r2]
           /\ cookie' = CookieAfter(s, req[s], r2)
    /\ UNCHANGED <<reminders, queued, lastTurn, nmsgs>>
    /\ UNCHANGED <<sweepVars, tableVars>>

MiddlewareErrorSets == {{}, {"findAskedQueued"}}

NextRoute ==
    \/ \E s \in Senders, body \in Bodies, asked \in AskedQueuedResults,
          errs \in MiddlewareErrorSets :
            Arrive(s, body, asked, errs)
    \/ \E s \in Senders : MiddlewareReturns(s)

\* The store answers every call it was given.
SpecRoute ==
    /\ Init
    /\ [][NextRoute]_vars
    /\ \A s \in Senders : WF_vars(MiddlewareReturns(s))

(***************************************************************************)
(* Two messages of one sender handled concurrently.  The conversation      *)
(* state lives in the session cookie, which travels with each request and  *)
(* comes back with the response; the handler takes no lock.  A message     *)
(* posted before the response to the previous one has come back carries    *)
(* the cookie the previous one carried.                                    *)
(***************************************************************************)
\* The request of a message that overlaps the request prev: its session is
\* the one prev was sent with.
OverlappingRequest(prev, s, body, asked, results, errs) ==
    [NewRequest(s, body, asked, results, errs)
        EXCEPT !.sess0 = prev.sess0, !.session = prev.sess0,
               !.saved = prev.sess0]

ReceiveConcurrent(s, body, asked, results, errs) ==
    /\ nmsgs < MaxMsgs
    /\ Done(req[s])
    /\ LET w0 == [r |-> OverlappingRequest(req[s], s, body, asked, results, errs),
                  reminders |-> reminders]
           w == RouteHandler(w0)
       IN  /\ req' = [req EXCEPT ![s] = w.r]
           /\ reminders' = w.reminders
           /\ queued' = QueuedAfter(w.r)
           /\ cookie' = CookieAfter(s, w0.r, w.r)
    /\ lastTurn' = [lastTurn EXCEPT ![s] = TurnKind(req[s])]
    /\ nmsgs' = nmsgs + 1
    /\ UNCHANGED <<sweepVars, tableVars>>

NextConcurrent ==
    \/ \E s \in Senders, body \in Bodies,
          asked \in AskedQueuedResults, results \in CitationResults :
            Receive(s, body, asked, results, NoErrors)
    \/ \E s \in Senders, body \in Bodies,
          asked \in AskedQueuedResults, results \in CitationResults :
            ReceiveConcurrent(s, body, asked, results, NoErrors)
    \/ \E s \in Senders : FindAskedQueuedReturns(s)
    \/ \E s \in Senders : AddQueuedReturns(s)
    \/ \E s \in Senders : FindCitationReturns(s)

SpecConcurrent == Init /\ [][NextConcurrent]_vars

(***************************************************************************)
(* Two senders whose requests interleave.  Each has a session cookie of    *)
(* their own; the stores are shared.                                       *)
(***************************************************************************)
TwoSenders == {"+15550001", "+15550002"}

TwoBodies == { <<"y","e","s">>, <<"a","b","c","1","2","3">> }

FewAskedQueuedResults == { <<>>, <<QueueRow1>> }

FewCitationResults == { <<>>, <<Case1>> }

InitTwo ==
    /\ SmsInit(TwoSenders)
    /\ SweepIdle
    /\ TablesIdle

NextTwo ==
    \/ \E s \in TwoSenders, body \in TwoBodies,
          asked \in FewAskedQueuedResults, results \in FewCitationResults :
            Receive(s, body, asked, results, NoErrors)
    \/ \E s \in TwoSenders : FindAskedQueuedReturns(s)
    \/ \E s \in TwoSenders : AddQueuedReturns(s)
    \/ \E s \in TwoSenders : FindCitationReturns(s)

SpecTwo == InitTwo /\ [][NextTwo]_vars

(***************************************************************************)
(* The Queue Expiry Sweep.  Once a day, every QueuedLookup not yet         *)
(* resolved is checked: a unique match is notified and the lookup          *)
(* resolved; otherwise a lookup past its expiry gets the expiry notice and *)
(* is resolved; otherwise it is left for the next sweep.  A lookup whose   *)
(* notice could not be delivered stays unresolved for the next sweep.      *)
(***************************************************************************)
MaxDay == 4

MaxLookups == 2

MaxTTL == 2

\* The values QUEUE_TTL_DAYS may have.
TTLDays == 1..MaxTTL

\* Mutant of Expiry: the time-to-live is not counted.
ExpiryAtCreation(created, ttl) == created

\* The derived expiry timestamp: creation + TTL_DAYS.
Expiry(created, ttl) == created + ttl

\* The QueuedLookup created at the day created with a time-to-live of ttl.
QueuedLookup(created, ttl) ==
    [created |-> created, ttl |-> ttl, expiry |-> Expiry(created, ttl),
     matched |-> FALSE, outcome |-> "unresolved", resolvedAt |-> 0,
     resolutions |-> 0, failed |-> FALSE]

\* now > expiry
Expired(l, t) == t > l.expiry

\* Deliver the notice and delete/resolve the QueuedLookup; a failed
\* delivery leaves it unresolved.
Resolve(l, t, outcome, delivered) ==
    IF delivered
    THEN [l EXCEPT !.outcome = outcome, !.resolvedAt = t,
                   !.resolutions = @ + 1, !.failed = FALSE]
    ELSE [l EXCEPT !.failed = TRUE]

\* What the sweep at time t does with the QueuedLookup l.
SweepOne(l, t, delivered) ==
    IF l.outcome # "unresolved" THEN l
    ELSE IF l.matched THEN Resolve(l, t, "found", delivered)
    ELSE IF Expired(l, t) THEN Resolve(l, t, "expired", delivered)
    ELSE l

\* A sender accepts the keep-checking offer.
CreateQueuedLookup(ttl) ==
    /\ Len(lookups) < MaxLookups
    /\ lookups' = Append(lookups, QueuedLookup(now, ttl))
    /\ UNCHANGED <<now, lastSweep>>
    /\ UNCHANGED <<smsVars, tableVars>>

\* A case record that matches the lookup's citation uniquely is loaded into
\* the Citation Store.
CaseAppears(i) ==
    /\ i \in 1..Len(lookups)
    /\ lookups[i].outcome = "unresolved"
    /\ ~lookups[i].matched
    /\ lookups' = [lookups EXCEPT ![i].matched = TRUE]
    /\ UNCHANGED <<now, lastSweep>>
    /\ UNCHANGED <<smsVars, tableVars>>

\* The sweep of the day; the deliveries to the lookups in fails fail.
Sweep(fails) ==
    /\ lastSweep < now
    /\ lookups' = [i \in 1..Len(lookups) |->
                      SweepOne(lookups[i], now, i \notin fails)]
    /\ lastSweep' = now
    /\ UNCHANGED now
    /\ UNCHANGED <<smsVars, tableVars>>

\* The next day begins, once the sweep of the day has run.
DayPasses ==
    /\ now < MaxDay
    /\ lastSweep = now
    /\ now' = now + 1
    /\ UNCHANGED <<lastSweep, lookups>>
    /\ UNCHANGED <<smsVars, tableVars>>

NextSweep ==
    \/ \E ttl \in TTLDays : CreateQueuedLookup(ttl)
    \/ \E i \in 1..MaxLookups : CaseAppears(i)
    \/ \E fails \in SUBSET (1..MaxLookups) : Sweep(fails)
    \/ DayPasses

SpecSweep == Init /\ [][NextSweep]_vars

(***************************************************************************)
(* The tables of the database.  ensureTablesExist is a chain of promises,  *)
(* one link per table, each link calling createTable and catching its      *)
(* failure.  The module also exports createTable and dropTable, which a    *)
(* caller may call by themselves, while the chain runs or not.  Every call *)
(* to the database may fail; creating a table that exists, or one whose    *)
(* foreign keys reference a table that does not exist, fails.              *)
(***************************************************************************)
MaxOutsideCalls == 1

\* const tables in ensureTablesExist.
tables == <<"defendants", "cases", "subscribers", "subscriptions">>

\* The keys of createTableInstructions.
createTableInstructions ==
    {"defendants", "cases", "subscribers", "subscriptions"}

\* createTableInstructions is a plain object: looked up by name it also
\* answers with what it inherits from Object.prototype.
ObjectPrototypeNames ==
    {"constructor", "toString", "toLocaleString", "valueOf", "hasOwnProperty",
     "isPrototypeOf", "propertyIsEnumerable", "__proto__",
     "__defineGetter__", "__defineSetter__", "__lookupGetter__",
     "__lookupSetter__"}

\* createTableInstructions[t] is truthy.
HasInstructions(t) == t \in createTableInstructions \cup ObjectPrototypeNames

\* The names createTable and dropTable are called with by themselves: the
\* tables of the application, one that has no instructions, and two that
\* createTableInstructions inherits.
TableNames == createTableInstructions \cup {"hearings", "constructor", "toString"}

\* The tables the foreign keys of a table reference.
References(t) ==
    CASE t = "cases" -> {"defendants"}
      [] t = "subscriptions" -> {"defendants", "subscribers"}
      [] OTHER -> {}

\* An entry of the log and a call to knex.schema.
LogEntry(level, what, table) == [level |-> level, what |-> what, table |-> table]

SchemaCall(op, table) == [op |-> op, table |-> table]

\* createTable(t) up to its first call to the database, cs and lg being
\* what its caller has called and logged: when createTableInstructions[t]
\* is falsy that is logged and createTable returns false.
createTable(t, cs, lg) ==
    IF ~HasInstructions(t)
    THEN [started |-> FALSE, calls |-> cs,
          log |-> Append(lg, LogEntry("error", "noInstructions", t))]
    ELSE [started |-> TRUE,
          calls |-> Append(cs, SchemaCall("hasTable", t)),
          log |-> lg]

\* The promise of createTable(t) when the call to the database it waits for
\* in phase settles, successfully (ok) or not: the next call it makes, or
\* how it ends and what it logs; the rejection is logged by who catches it.
\* createTableInstructions[t]() of an inherited name returns no promise, or
\* is no function, and .then on it throws: the promise is rejected.
createTableStep(t, phase, ok) ==
    LET rejected == [phase |-> "rejected", calls |-> <<>>, db |-> dbTables,
                     entry |-> LogEntry("error", "failed", t)]
    IN  CASE phase = "hasTable" ->
               IF ~ok THEN rejected
               ELSE IF t \in dbTables
               THEN [phase |-> "resolved", calls |-> <<>>, db |-> dbTables,
                     entry |-> LogEntry("debug", "exists", t)]
               ELSE IF t \notin createTableInstructions THEN rejected
               ELSE [phase |-> "instructions",
                     calls |-> <<SchemaCall("hasTable", t)>>,
                     db |-> dbTables,
                     entry |-> LogEntry("debug", "none", t)]
          [] phase = "instructions" ->
               IF ~ok THEN rejected
               ELSE IF t \in dbTables
               THEN [phase |-> "resolved", calls |-> <<>>, db |-> dbTables,
                     entry |-> LogEntry("debug", "created", t)]
               ELSE [phase |-> "createTable",
                     calls |-> <<SchemaCall("createTable", t)>>,
                     db |-> dbTables,
                     entry |-> LogEntry("debug", "none", t)]
          [] OTHER ->
               IF ok /\ t \notin dbTables /\ References(t) \subseteq dbTables
               THEN [phase |-> "resolved", calls |-> <<>>,
                     db |-> dbTables \cup {t},
                     entry |-> LogEntry("debug", "created", t)]
               ELSE rejected

\* The link of the chain for tables[i]: createTable(tables[i]).catch(...);
\* .catch of the false that createTable returns throws, which rejects the
\* chain.
Link(i, cs, lg) ==
    LET w == createTable(tables[i], cs, lg)
    IN  [chain |-> [pos |-> i,
                    phase |-> IF w.started THEN "hasTable" ELSE "rejected"],
         calls |-> w.calls, log |-> w.log]

\* Mutant of Settled: the link has no .catch, a failure rejects the chain.
SettledWithoutCatch(i, entry) ==
    LET cs == calls["ensureTablesExist"]
        lg == log["ensureTablesExist"]
    IN  IF entry.level = "error"
        THEN [chain |-> [pos |-> i, phase |-> "rejected"], calls |-> cs,
              log |-> lg]
        ELSE IF i < Len(tables)
        THEN Link(i + 1, cs, Append(lg, entry))
        ELSE [chain |-> [pos |-> i, phase |-> "resolved"], calls |-> cs,
              log |-> Append(lg, entry)]

\* The promise of link i has settled and entry was logged, by createTable
\* or by the link's .catch: the next link runs, or the chain is resolved.
Settled(i, entry) ==
    LET cs == calls["ensureTablesExist"]
        lg == log["ensureTablesExist"]
    IN  IF i < Len(tables)
        THEN Link(i + 1, cs, Append(lg, entry))
        ELSE [chain |-> [pos |-> i, phase |-> "resolved"], calls |-> cs,
              log |-> Append(lg, entry)]

\* How much createTable and dropTable called by themselves have called and
\* logged so far.
OutsideWork ==
    Len(calls["createTable"]) + Len(calls["dropTable"])
        + Len(SelectSeq(log["createTable"],
                        LAMBDA e : e.what = "noInstructions"))

\* The promise chain goes on with the outcome st of createTableStep.
ChainGoesOn(st) ==
    /\ dbTables' = st.db
    /\ LET w == IF st.phase \in {"resolved", "rejected"}
                THEN Settled(chain.pos, st.entry)
                ELSE [chain |-> [chain EXCEPT !.phase = st.phase],
                      calls |-> calls["ensureTablesExist"] \o st.calls,
                      log |-> log["ensureTablesExist"]]
       IN  /\ chain' = w.chain
           /\ calls' = [calls EXCEPT !["ensureTablesExist"] = w.calls]
           /\ log' = [log EXCEPT !["ensureTablesExist"] = w.log]
    /\ UNCHANGED <<dbTables0, solo, drops>>
    /\ UNCHANGED <<smsVars, sweepVars>>

\* The createTable called by itself goes on with the outcome st: its
\* rejection is the caller's to handle and is not logged.
SoloGoesOn(st) ==
    /\ dbTables' = st.db
    /\ solo' = IF st.phase \in {"resolved", "rejected"}
               THEN NoSolo
               ELSE [solo EXCEPT !.phase = st.phase]
    /\ calls' = [calls EXCEPT !["createTable"] = @ \o st.calls]
    /\ log' = IF st.phase = "resolved"
              THEN [log EXCEPT !["createTable"] = Append(@, st.entry)]
              ELSE log
    /\ UNCHANGED <<dbTables0, chain, drops>>
    /\ UNCHANGED <<smsVars, sweepVars>>

EnsureTablesExist ==
    /\ chain = NotStarted
    /\ LET w == Link(1, calls["ensureTablesExist"], log["ensureTablesExist"])
       IN  /\ chain' = w.chain
           /\ calls' = [calls EXCEPT !["ensureTablesExist"] = w.calls]
           /\ log' = [log EXCEPT !["ensureTablesExist"] = w.log]
    /\ dbTables0' = dbTables
    /\ UNCHANGED <<dbTables, solo, drops>>
    /\ UNCHANGED <<smsVars, sweepVars>>

\* knex.schema.hasTable(table) of createTable settles.
HasTableReturns(ok) ==
    /\ chain.phase = "hasTable"
    /\ ChainGoesOn(createTableStep(tables[chain.pos], "hasTable", ok))

\* knex.schema.hasTable(table) of createTableInstructions[table] settles.
InstructionsHasTableReturns(ok) ==
    /\ chain.phase = "instructions"
    /\ ChainGoesOn(createTableStep(tables[chain.pos], "instructions", ok))

\* knex.schema.createTable(table, ...) settles.
CreateTableReturns(ok) ==
    /\ chain.phase = "createTable"
    /\ ChainGoesOn(createTableStep(tables[chain.pos], "createTable", ok))

\* createTable(t) is called by itself.
CreateTable(t) ==
    /\ solo = NoSolo
    /\ OutsideWork < MaxOutsideCalls
    /\ LET w == createTable(t, calls["createTable"], log["createTable"])
       IN  /\ solo' = IF w.started
                      THEN [table |-> t, phase |-> "hasTable"]
                      ELSE NoSolo
           /\ calls' = [calls EXCEPT !["createTable"] = w.calls]
           /\ log' = [log EXCEPT !["createTable"] = w.log]
    /\ UNCHANGED <<dbTables0, dbTables, chain, drops>>
    /\ UNCHANGED <<smsVars, sweepVars>>

\* A call to the database made by that createTable settles.
CreateTableGoesOn(ok) ==
    /\ solo # NoSolo
    /\ SoloGoesOn(createTableStep(solo.table, solo.phase, ok))

\* dropTable(t) is called: it calls knex.schema.dropTableIfExists(t) and
\* returns the promise.
DropTable(t) ==
    /\ OutsideWork < MaxOutsideCalls
    /\ calls' = [calls EXCEPT !["dropTable"] =
                                  Append(@, SchemaCall("dropTableIfExists", t))]
    /\ drops' = Append(drops, t)
    /\ UNCHANGED <<dbTables0, dbTables, chain, solo, log>>
    /\ UNCHANGED <<smsVars, sweepVars>>

\* The drops without the i-th.
WithoutDrop(i) == SubSeq(drops, 1, i - 1) \o SubSeq(drops, i + 1, Len(drops))

\* knex.schema.dropTableIfExists of the i-th outstanding dropTable settles:
\* the table is gone and that is logged, or the promise is rejected.
DropTableReturns(i, ok) ==
    /\ i \in 1..Len(drops)
    /\ drops' = WithoutDrop(i)
    /\ dbTables' = IF ok THEN dbTables \ {drops[i]} ELSE dbTables
    /\ log' = IF ok
              THEN [log EXCEPT !["dropTable"] =
                                   Append(@, LogEntry("debug", "dropped", drops[i]))]
              ELSE log
    /\ UNCHANGED <<dbTables0, chain, solo, calls>>
    /\ UNCHANGED <<smsVars, sweepVars>>

\* The database holds any of the tables.
InitTables ==
    /\ SmsInit(Senders)
    /\ SweepIdle
    /\ dbTables \in SUBSET createTableInstructions
    /\ dbTables0 = dbTables
    /\ chain = NotStarted
    /\ solo = NoSolo
    /\ drops = <<>>
    /\ calls = NothingYet
    /\ log = NothingYet

NextTables ==
    \/ EnsureTablesExist
    \/ \E ok \in BOOLEAN : HasTableReturns(ok)
    \/ \E ok \in BOOLEAN : InstructionsHasTableReturns(ok)
    \/ \E ok \in BOOLEAN : CreateTableReturns(ok)
    \/ \E t \in TableNames : CreateTable(t)
    \/ \E ok \in BOOLEAN : CreateTableGoesOn(ok)
    \/ \E t \in TableNames : DropTable(t)
    \/ \E i \in 1..MaxOutsideCalls, ok \in BOOLEAN : DropTableReturns(i, ok)

SpecTables == InitTables /\ [][NextTables]_vars

(***************************************************************************)
(* Vocabulary of the properties.  A turn is a request all of whose         *)
(* callbacks have run; the sender's next state is the session in the       *)
(* cookie after the turn, the state the message met is r.sess0.            *)
(***************************************************************************)
AffirmativeBodies ==
    { <<"y","e","s">>, <<"Y">>, <<"y","e","a">>, <<"Y","U","P">> }

NegativeBodies == { <<"n","o">>, <<"N">> }

\* No pending question: neither flag in the session, and no queue row that
\* asked the sender.
Idle(r) ==
    /\ ~r.sess0.askedReminder
    /\ ~r.sess0.askedQueued
    /\ r.asked = <<>>

NextIdle(s) == ~cookie[s].askedReminder /\ ~cookie[s].askedQueued

Reply(kinds) ==
    [status |-> 200, body |-> [i \in 1..Len(kinds) |-> Sms(kinds[i])]]

RemindersCreated(r) == SubSeq(reminders, r.reminders0 + 1, Len(reminders))

QueuedCreated(r) == SubSeq(queued, r.queued0 + 1, Len(queued))

(***************************************************************************)
(* C1: the session flags askedReminder and askedQueued are never both      *)
(* true.  The handler breaks it: a lookup sets one flag and leaves the     *)
(* other as it was.                                                        *)
(***************************************************************************)
C1_AtMostOnePending ==
    \A s \in Senders : ~(cookie[s].askedReminder /\ cookie[s].askedQueued)

(***************************************************************************)
(* C2: a text of 6 to 25 characters for which the lookup returns no record *)
(* or more than one leaves the sender with askedQueued set, the text       *)
(* stored as citation, the reply "(1/2)", "(2/2)", and askedReminder as it *)
(* was.                                                                    *)
(***************************************************************************)
C2_UnfoundAsksQueue ==
    \A s \in Senders :
        LET r == req[s]
        IN  (Done(r) /\ Len(r.text) >= 6 /\ Len(r.text) <= 25
                     /\ Len(r.results) # 1)
            => /\ cookie[s].askedQueued
               /\ cookie[s].citationId = r.text
               /\ (r.body = <<"a","b","c","1","2","3">>
                      => cookie[s].citationId = <<"A","B","C","1","2","3">>)
               /\ r.response = Reply(<<"notFound1of2", "keepCheckingOffer2of2">>)
               /\ cookie[s].askedReminder = r.sess0.askedReminder

C2_Witness ==
    \E s \in Senders :
        /\ Done(req[s])
        /\ req[s].body = <<"a","b","c","1","2","3">>
        /\ req[s].results = <<>>
        /\ Idle(req[s])
        /\ cookie[s].askedQueued
        /\ cookie[s].citationId = <<"A","B","C","1","2","3">>

(***************************************************************************)
(* C3: a text shorter than 6 or longer than 25 characters, with no unique  *)
(* match, from an Idle sender: the only reply is the format error, no row  *)
(* is created, and the sender stays Idle.  The length is that of the text  *)
(* the lookup is made with, the upper-cased one: three sharp s make six    *)
(* characters.                                                             *)
(***************************************************************************)
C3_MalformedStaysIdle ==
    \A s \in Senders :
        LET r == req[s]
        IN  (Done(r) /\ Idle(r) /\ (Len(r.text) < 6 \/ Len(r.text) > 25)
                     /\ Len(r.results) # 1)
            => /\ r.response = Reply(<<"formatError">>)
               /\ r.sends = 1
               /\ RemindersCreated(r) = <<>>
               /\ QueuedCreated(r) = <<>>
               /\ NextIdle(s)
               /\ cookie[s] = r.sess0

C3_Witness ==
    \E s \in Senders :
        /\ Done(req[s])
        /\ Idle(req[s])
        /\ req[s].body = Rep("7", 26)
        /\ req[s].results = <<Case1, Case2>>
        /\ req[s].response = Reply(<<"formatError">>)
        /\ NextIdle(s)

(***************************************************************************)
(* C4: a unique match for an Idle sender: the record is stored in the      *)
(* session, the reply is the case summary with the reminder prompt, and    *)
(* the sender is left with askedReminder set and askedQueued not set.      *)
(***************************************************************************)
C4_UniqueMatchAsksReminder ==
    \A s \in Senders :
        LET r == req[s]
        IN  (Done(r) /\ Idle(r) /\ Len(r.results) = 1)
            => /\ cookie[s].match = r.results[1]
               /\ r.response =
                      [status |-> 200,
                       body |-> <<[kind |-> "foundCase", match |-> r.results[1]]>>]
               /\ cookie[s].askedReminder
               /\ ~cookie[s].askedQueued

C4_Witness ==
    \E s \in Senders :
        /\ Done(req[s])
        /\ Idle(req[s])
        /\ req[s].results = <<Case1>>
        /\ cookie[s].askedReminder
        /\ cookie[s].match = Case1

(***************************************************************************)
(* C5: an affirmative reply to the reminder question creates exactly one   *)
(* reminder row, made of the stored match and the sender's number, is      *)
(* answered by the two-part confirmation alone, and leaves the sender      *)
(* Idle.  It fails where C1 fails: with askedQueued also set the same YES  *)
(* is taken as the answer to the queue question too.                       *)
(***************************************************************************)
C5_ReminderYes ==
    \A s \in Senders :
        LET r == req[s]
        IN  (Done(r) /\ r.sess0.askedReminder /\ r.body \in AffirmativeBodies)
            => /\ RemindersCreated(r) =
                      <<[caseId |-> r.sess0.match.id, phone |-> s,
                         originalCase |-> r.sess0.match]>>
               /\ r.response =
                      Reply(<<"reminderConfirmed1of2", "reminderConfirmed2of2">>)
               /\ NextIdle(s)

(***************************************************************************)
(* C6: an affirmative reply to the queue question creates exactly one      *)
(* queue row, made of the stored citation and the sender's number, is      *)
(* answered by the single "will keep checking" message, and leaves the     *)
(* sender Idle.  The handler goes on to the citation lookup after starting *)
(* db.addQueued, so the lookup's callback can answer first.                *)
(***************************************************************************)
C6_QueueYes ==
    \A s \in Senders :
        LET r == req[s]
        IN  (Done(r) /\ r.sess0.askedQueued /\ r.body \in AffirmativeBodies)
            => /\ QueuedCreated(r) =
                      <<[citationId |-> r.sess0.citationId, phone |-> s]>>
               /\ r.response = Reply(<<"keepChecking">>)
               /\ NextIdle(s)

(***************************************************************************)
(* C7: a negative reply to either question creates no row, is answered by  *)
(* the opt-out acknowledgement, and leaves the sender Idle.  It fails      *)
(* where C1 fails: with both flags set only askedReminder is cleared in    *)
(* the session that reaches the cookie.                                    *)
(***************************************************************************)
C7_No ==
    \A s \in Senders :
        LET r == req[s]
        IN  (Done(r) /\ (r.sess0.askedReminder \/ r.sess0.askedQueued)
                     /\ r.body \in NegativeBodies)
            => /\ RemindersCreated(r) = <<>>
               /\ QueuedCreated(r) = <<>>
               /\ r.response = Reply(<<"optOut">>)
               /\ NextIdle(s)

(***************************************************************************)
(* C8: a reply to a pending question that is neither affirmative nor       *)
(* negative.  As claimed: no message goes out and the session is           *)
(* unchanged.                                                              *)
(***************************************************************************)
Unrecognized(r) ==
    /\ r.body \notin AffirmativeBodies
    /\ r.body \notin NegativeBodies

LookupReply(r) ==
    IF Len(r.results) = 1
    THEN [status |-> 200,
          body |-> <<[kind |-> "foundCase", match |-> r.results[1]]>>]
    ELSE IF Len(r.text) >= 6 /\ Len(r.text) <= 25
    THEN Reply(<<"notFound1of2", "keepCheckingOffer2of2">>)
    ELSE Reply(<<"formatError">>)

SecondYes(s) ==
    /\ Done(req[s])
    /\ lastTurn[s] = "reminderYes"
    /\ req[s].body \in AffirmativeBodies

C9_SecondYesCreatesNothing ==
    \A s \in Senders :
        SecondYes(s) => RemindersCreated(req[s]) = <<>>

(* C9 as amended: the second YES finds askedReminder cleared and creates   *)
(* no row from the session's match; it creates a row only when             *)
(* db.findAskedQueued returns exactly one row for the sender, and then     *)
(* one row, made of that queue row.                                        *)
C9_SecondYesOnlyFromQueueRow ==
    \A s \in Senders :
        LET r == req[s]
        IN  SecondYes(s)
            => /\ ~r.sess0.askedReminder
               /\ (Len(r.asked) # 1 => RemindersCreated(r) = <<>>)
               /\ (Len(r.asked) = 1 =>
                      RemindersCreated(r) =
                          <<[caseId |-> r.asked[1].id, phone |-> s,
                             originalCase |-> r.asked[1]]>>)

C9_Witness ==
    \E s \in Senders :
        /\ SecondYes(s)
        /\ req[s].asked = <<>>
        /\ Len(reminders) = 1
        /\ reminders[1].caseId = Case1.id
        /\ RemindersCreated(req[s]) = <<>>

(***************************************************************************)
(* C10: YES or NO from an Idle sender.  As claimed: no reply, no row, no   *)
(* failure, and the sender stays Idle.                                     *)
(***************************************************************************)
StaleAnswer(r) ==
    /\ Done(r)
    /\ Idle(r)
    /\ (r.body \in AffirmativeBodies \/ r.body \in NegativeBodies)

C10_StaleAnswerSilent ==
    \A s \in Senders :
        LET r == req[s]
        IN  StaleAnswer(r)
            => /\ r.sends = 0
               /\ r.response = NoResponse
               /\ RemindersCreated(r) = <<>>
               /\ QueuedCreated(r) = <<>>
               /\ ~r.uncaught
               /\ NextIdle(s)

(* C10 as amended: such a reply is looked up as a citation; when the       *)
(* lookup finds no unique record the one reply is the format error, no row *)
(* is created, nothing is thrown, and the sender stays Idle.               *)
C10_StaleAnswerIsLookup ==
    \A s \in Senders :
        LET r == req[s]
        IN  (StaleAnswer(r) /\ Len(r.results) # 1)
            => /\ r.sends = 1
               /\ r.response = Reply(<<"formatError">>)
               /\ RemindersCreated(r) = <<>>
               /\ QueuedCreated(r) = <<>>
               /\ ~r.uncaught
               /\ NextIdle(s)

C10_Witness ==
    \E s \in Senders :
        /\ StaleAnswer(req[s])
        /\ req[s].body = <<"y","e","s">>
        /\ req[s].results = <<>>
        /\ req[s].response = Reply(<<"formatError">>)
        /\ NextIdle(s)

(***************************************************************************)
(* C11: a message that meets no conversation state in the session.  As     *)
(* claimed: with one queue row found for the sender, YES and NO answer the *)
(* queue question and not a reminder question, so YES creates a queue row  *)
(* and no reminder row.                                                    *)
(***************************************************************************)
NoSessionState(r) == ~r.sess0.askedReminder /\ ~r.sess0.askedQueued

C11_RowResumesQueueQuestion ==
    \A s \in Senders :
        LET r == req[s]
        IN  (Done(r) /\ NoSessionState(r) /\ Len(r.asked) = 1
                     /\ r.body \in AffirmativeBodies)
            => /\ RemindersCreated(r) = <<>>
               /\ QueuedCreated(r) =
                      <<[citationId |-> r.asked[1].citation, phone |-> s]>>

(* C11 as amended: the handler asks db.findAskedQueued for the sender's    *)
(* rows and starts the citation lookup as well.  With exactly one row the  *)
(* message is taken as the answer to the reminder question about that row: *)
(* YES creates one reminder row made of the queue row and no queue row, NO *)
(* creates nothing, and the response is the answer's reply or the lookup's *)
(* reply.  With no row, or more than one, the sender is treated as Idle:   *)
(* nothing is created and the response is the lookup's reply.              *)
C11_RowResumesReminderQuestion ==
    \A s \in Senders :
        LET r == req[s]
        IN  (Done(r) /\ NoSessionState(r))
            => /\ QueuedCreated(r) = <<>>
               /\ (Len(r.asked) = 1 /\ r.body \in AffirmativeBodies
                     => /\ RemindersCreated(r) =
                              <<[caseId |-> r.asked[1].id, phone |-> s,
                                 originalCase |-> r.asked[1]]>>
                        /\ r.response \in
                              { Reply(<<"reminderConfirmed1of2",
                                        "reminderConfirmed2of2">>),
                                LookupReply(r) })
               /\ (Len(r.asked) = 1 /\ r.body \in NegativeBodies
                     => /\ RemindersCreated(r) = <<>>
                        /\ r.response \in
                              { Reply(<<"optOut">>), LookupReply(r) })
               /\ (Len(r.asked) # 1 \/ Unrecognized(r)
                     => /\ RemindersCreated(r) = <<>>
                        /\ r.response = LookupReply(r))

C11_Witness ==
    \E s \in Senders :
        /\ Done(req[s])
        /\ NoSessionState(req[s])
        /\ req[s].asked = <<QueueRow1>>
        /\ req[s].body = <<"y","e","a">>
        /\ RemindersCreated(req[s]) =
               <<[caseId |-> QueueRow1.id, phone |-> s,
                  originalCase |-> QueueRow1]>>
        /\ req[s].response =
               Reply(<<"reminderConfirmed1of2", "reminderConfirmed2of2">>)

(***************************************************************************)
(* C17: res.send is called at most once for a request, on every path.      *)
(* The handler breaks it: after handleReminderResponse has answered, the   *)
(* handler still starts the citation lookup, whose callback sends again.   *)
(***************************************************************************)
C17_SendAtMostOnce ==
    \A s \in Senders : req[s].sends <= 1

(***************************************************************************)
(* C18: a reminder row is created only by an affirmative reply to a        *)
(* pending reminder question (askedReminder in the session, or else the    *)
(* one queue row that asked the sender), and a queue row only by an        *)
(* affirmative reply with askedQueued in the session; no other message     *)
(* creates either.                                                         *)
(***************************************************************************)
ReminderPending(r) ==
    \/ r.sess0.askedReminder
    \/ ~r.sess0.askedReminder /\ Len(r.asked) = 1

C18_RowsOnlyFromYes ==
    \A s \in Senders :
        LET r == req[s]
        IN  /\ RemindersCreated(r) # <<>>
                => r.body \in AffirmativeBodies /\ ReminderPending(r)
            /\ QueuedCreated(r) # <<>>
                => r.body \in AffirmativeBodies /\ r.sess0.askedQueued

C18_Witness ==
    \E s \in Senders :
        /\ Done(req[s])
        /\ Len(reminders) = 1
        /\ req[s].sess0.askedQueued
        /\ ~req[s].sess0.askedReminder
        /\ req[s].body \in AffirmativeBodies
        /\ QueuedCreated(req[s]) =
               <<[citationId |-> <<"A","B","C","1","2","3">>, phone |-> s]>>

(***************************************************************************)
(* C19: the handler decides on the text trimmed and upper-cased: outer     *)
(* whitespace and letter case change neither whether the text is taken as  *)
(* affirmative or negative, nor the citation looked up, nor the judgement  *)
(* of its length.  The handler upper-cases the text and does not trim it.  *)
(***************************************************************************)
RECURSIVE TrimLeft(_)
TrimLeft(t) ==
    IF t # <<>> /\ Head(t) = " " THEN TrimLeft(Tail(t)) ELSE t

RECURSIVE TrimRight(_)
TrimRight(t) ==
    IF t # <<>> /\ t[Len(t)] = " "
    THEN TrimRight(SubSeq(t, 1, Len(t) - 1))
    ELSE t

Normalized(body) == toUpperCase(TrimRight(TrimLeft(body)))

C19_DecidesOnNormalizedText ==
    \A s \in Senders :
        LET r == req[s]
            t == Normalized(r.body)
        IN  r.live
            => /\ r.text = t
               /\ IsAffirmative(r.text) = IsAffirmative(t)
               /\ IsNegative(r.text) = IsNegative(t)
               /\ correctLengthCitation(r.text) = correctLengthCitation(t)

(***************************************************************************)
(* C14: when a store call of the turn fails, the response is the error     *)
(* response and nothing else, the session is not advanced, and nothing is  *)
(* thrown past the handler.  The handler breaks it: the failure of         *)
(* db.addReminder is ignored, the failure of db.findCitation is taken as   *)
(* "no record", and the db.addQueued callback goes on after next(err).     *)
(***************************************************************************)
\* The store calls the handler makes for the request r.
CallsMade(r) ==
    LET yes == r.body \in AffirmativeBodies
        no == r.body \in NegativeBodies
    IN  {c \in StoreCalls :
            \/ c = "findAskedQueued" /\ ~r.sess0.askedReminder
            \/ c = "addQueued" /\ r.sess0.askedQueued /\ yes
            \/ c = "addReminder" /\ yes /\ ReminderPending(r)
            \/ c = "findCitation" /\ ~(r.sess0.askedQueued /\ no)}

C14_FailedCallOnlyApologizes ==
    \A s \in Senders :
        LET r == req[s]
        IN  (Done(r) /\ r.errs \cap CallsMade(r) # {})
            => /\ r.response = [status |-> 500, body |-> <<>>]
               /\ cookie[s] = r.sess0
               /\ ~r.uncaught

(***************************************************************************)
(* C13: every request on the /sms route ends with a response: once every   *)
(* store callback of the request has run, a response has been sent.  The   *)
(* route breaks it: questionAskedMiddleware never calls next() and never   *)
(* responds, so the request is left without a response for ever.           *)
(***************************************************************************)
C13_CompletedRequestHasResponse ==
    \A s \in Senders :
        Done(req[s]) => req[s].sent /\ req[s].response # NoResponse

(***************************************************************************)
(* C12: two messages of one sender that both start from the pending        *)
(* reminder question never both create a ReminderSubscription: when the    *)
(* previous message of the sender was a YES to the reminder question, the  *)
(* current one is not another YES that saw the same question and created a *)
(* subscription too.  Overlapping requests break it: there is no mutual    *)
(* exclusion around load, decide and persist.                              *)
(***************************************************************************)
C12_OneReminderPerQuestion ==
    \A s \in Senders :
        LET r == req[s]
        IN  ~ /\ r.live
              /\ lastTurn[s] = "reminderYes"
              /\ r.sess0.askedReminder
              /\ r.body \in AffirmativeBodies
              /\ RemindersCreated(r) # <<>>

(***************************************************************************)
(* C15: a step that handles a message of sender a, the handler or one of   *)
(* its store callbacks, leaves the session cookie and the request of every *)
(* other sender b unchanged; what the senders share is the stores.         *)
(***************************************************************************)
HandlesMessageOf(a) ==
    \/ \E body \in TwoBodies, asked \in FewAskedQueuedResults,
          results \in FewCitationResults :
            Receive(a, body, asked, results, NoErrors)
    \/ FindAskedQueuedReturns(a)
    \/ AddQueuedReturns(a)
    \/ FindCitationReturns(a)

C15_OtherSenderUnchanged ==
    [][\A a \in TwoSenders, b \in TwoSenders :
          (a # b /\ HandlesMessageOf(a))
          => /\ cookie'[b] = cookie[b]
             /\ req'[b] = req[b]
             /\ lastTurn'[b] = lastTurn[b]]_vars

\* One sender is asked the reminder question about Case1 and has a further
\* request in flight, while the other keeps the queue question pending about
\* the citation they sent.
C15_Witness ==
    LET a == "+15550001"
        b == "+15550002"
    IN  /\ InFlight(req[a])
        /\ lastTurn[a] # "none"
        /\ cookie[a].askedReminder /\ ~cookie[a].askedQueued
        /\ cookie[a].match = Case1
        /\ Done(req[b])
        /\ cookie[b].askedQueued /\ ~cookie[b].askedReminder
        /\ cookie[b].citationId = <<"A","B","C","1","2","3">>

(***************************************************************************)
(* C16: a QueuedLookup created with a time-to-live of N days and never     *)
(* matched is resolved by the sweep exactly once, with the expiry outcome, *)
(* and only after N days have elapsed since its creation: it is never      *)
(* resolved twice, never with another outcome, never at a time that is not *)
(* later than creation + N, and a sweep later than that leaves it          *)
(* unresolved only when the delivery of its notice failed.                 *)
(***************************************************************************)
C16_ExpiredExactlyOnce ==
    \A i \in 1..Len(lookups) :
        LET l == lookups[i]
        IN  /\ l.resolutions <= 1
            /\ (l.outcome = "unresolved") <=> (l.resolutions = 0)
            /\ ~l.matched
               => /\ l.outcome \in {"unresolved", "expired"}
                  /\ l.outcome = "expired"
                     => l.resolvedAt > l.created + l.ttl
                  /\ (l.outcome = "unresolved" /\ lastSweep > l.created + l.ttl)
                     => l.failed

\* A lookup of two days, never matched, was resolved as expired by the
\* sweep of the third day after its creation, and a later sweep has run.
C16_Witness ==
    \E i \in 1..Len(lookups) :
        LET l == lookups[i]
        IN  /\ ~l.matched
            /\ l.ttl = 2
            /\ l.outcome = "expired"
            /\ l.resolutions = 1
            /\ l.resolvedAt = l.created + 3
            /\ lastSweep > l.resolvedAt

(***************************************************************************)
(* C20: ensureTablesExist attempts the tables in the order defendants,     *)
(* cases, subscribers, subscriptions, each attempt starting only after the *)
(* previous one has finished; a table that exists already is not created   *)
(* again; a failure of an attempt is logged as an error and the later      *)
(* tables are attempted all the same.  createTable and dropTable called by *)
(* themselves meanwhile do not change this.                                *)
(***************************************************************************)
ClaimedOrder == <<"defendants", "cases", "subscribers", "subscriptions">>

\* The tables the calls cs are about, without repetition, in order.
RECURSIVE AttemptsOf(_)
AttemptsOf(cs) ==
    IF cs = <<>> THEN <<>>
    ELSE LET rest == AttemptsOf(SubSeq(cs, 1, Len(cs) - 1))
             t == cs[Len(cs)].table
         IN  IF rest # <<>> /\ rest[Len(rest)] = t THEN rest
             ELSE Append(rest, t)

\* What ensureTablesExist has called and logged.
ChainCalls == calls["ensureTablesExist"]

ChainLog == log["ensureTablesExist"]

\* Whether createTable or dropTable have been called by themselves.
Undisturbed == calls["createTable"] = <<>> /\ calls["dropTable"] = <<>>

Dropped(t) ==
    \E k \in 1..Len(calls["dropTable"]) : calls["dropTable"][k].table = t

C20_TablesInOrder ==
    LET attempts == AttemptsOf(ChainCalls)
        n == Len(attempts)
    IN  \* in order, one at a time: every attempt but the latest has finished
        /\ n <= 4
        /\ attempts = SubSeq(ClaimedOrder, 1, n)
        /\ Len(ChainLog) \in {m \in {n - 1, n} : m >= 0}
        /\ \A i \in 1..Len(ChainLog) : ChainLog[i].table = ClaimedOrder[i]
        \* a table that exists already is not created again
        /\ \A k \in 1..Len(ChainCalls) :
              ChainCalls[k].op = "createTable"
              => /\ \A j \in 1..Len(ChainCalls) :
                       ChainCalls[j] = ChainCalls[k] => j = k
                 /\ \A i \in 1..Len(ChainLog) :
                       ChainLog[i].table = ChainCalls[k].table
                       => ChainLog[i].what # "exists"
                 /\ Undisturbed => ChainCalls[k].table \notin dbTables0
        /\ \A i \in 1..Len(ChainLog) :
              (ChainLog[i].what = "exists" /\ Undisturbed)
              => ChainLog[i].table \in dbTables0
        /\ Undisturbed => dbTables0 \subseteq dbTables
        \* a failure is logged and the chain goes on to the end
        /\ chain.phase # "rejected"
        /\ chain.phase = "resolved" => n = 4 /\ Len(ChainLog) = 4
        /\ \A i \in 1..Len(ChainLog) :
              LET t == ChainLog[i].table
              IN  ~Dropped(t)
                  => /\ t \notin dbTables => ChainLog[i].level = "error"
                     /\ ChainLog[i].level = "debug" => t \in dbTables

\* defendants existed and was left alone, creating cases failed and was
\* logged, and subscribers was created afterwards; the chain is resolved,
\* and dropTable was called by itself after the chain had started.
C20_Witness ==
    /\ chain.phase = "resolved"
    /\ "defendants" \in dbTables0
    /\ \A k \in 1..Len(ChainCalls) :
          ChainCalls[k] # SchemaCall("createTable", "defendants")
    /\ \E k \in 1..Len(ChainCalls) :
          ChainCalls[k] = SchemaCall("createTable", "cases")
    /\ "cases" \notin dbTables
    /\ ChainLog[2] = LogEntry("error", "failed", "cases")
    /\ "subscribers" \in dbTables \ dbTables0
    /\ ChainLog[3] = LogEntry("debug", "created", "subscribers")
    /\ calls["dropTable"] = <<SchemaCall("dropTableIfExists", "subscriptions")>>
    /\ "subscriptions" \in dbTables0 \ dbTables

====
